---------------------------- MODULE Spec2Model ----------------------------
(***************************************************************************)
(* Model of hw5_base.py: the hyperparameter-sweep driver.                  *)
(*                                                                         *)
(* Python values are modelled as follows.                                  *)
(*   - An optional value is a sequence: None is <<>>, the value v is <<v>>.*)
(*   - A float argument is an integer number of 1/FloatScale units, so     *)
(*     "x > 0.0 and x < 1" reads  x > 0 /\ x < FloatScale.                 *)
(*   - The argparse Namespace is a record; an attribute the parser does    *)
(*     not define is a field the record does not have, and reading it      *)
(*     raises AttributeError.                                              *)
(*   - A call returns [exc |-> "", val |-> v] or raises                    *)
(*     [exc |-> kind, msg |-> text].                                       *)
(*   - A file name is a string, built by concatenation as the code does.   *)
(***************************************************************************)
EXTENDS Integers, Sequences, FiniteSets, TLC

\* ------------------------------------------------------------------ bounds
\* Number of batch jobs (processes running __main__) that may overlap.
NumJobs == 2
\* Largest number of visible GPUs.
MaxGPUs == 3
\* Resolution of the float arguments: 1.0 is FloatScale units.
FloatScale == 4
\* Largest per-GPU batch size given on the command line.
MaxBatch == 3

\* ------------------------------------------------------------ Python values
None == <<>>
Some(v) == <<v>>
IsNone(o) == o = <<>>
Val(o) == o[1]

Return(v) == [exc |-> "", val |-> v]
Raise(kind, text) == [exc |-> kind, msg |-> text]
Ok(r) == r.exc = ""

HasAttr(obj, k) == k \in DOMAIN obj
\* setattr(obj, k, v)
SetAttr(obj, k, v) == [a \in DOMAIN obj \cup {k} |-> IF a = k THEN v ELSE obj[a]]

Without(obj, k) == [a \in DOMAIN obj \ {k} |-> obj[a]]

\* range(a, b) as the sequence of its values
Range(a, b) == [k \in 1..(b - a) |-> a + k - 1]

\* --------------------------------------------------------- hyperparameters
\* The dictionary {'rotation': range(0, 5)}, in insertion order.
RotationParams == << [name |-> "rotation", values |-> Range(0, 5)] >>

\* "or" evaluates its right operand only when the left one is false; the right
\* operand reads args.expt_type (sic), which raises AttributeError when the
\* Namespace has no such attribute.
exp_type_to_hyperparameters(args) ==
    IF args.exp_type = "rnn" THEN Return(RotationParams)
    ELSE IF ~HasAttr(args, "expt_type")
         THEN Raise("AttributeError", "'Namespace' object has no attribute 'expt_type'")
    ELSE IF args.expt_type = "cnn" THEN Return(RotationParams)
    ELSE Raise("AssertionError", "Unrecognized exp_type")

\* --------------------------------------------------------------- check_args
\* The test of the last assertion of check_args.
CpusOk(c) == IsNone(c) \/ Val(c) > 1

UnitOpen(o) == IsNone(o) \/ (Val(o) > 0 /\ Val(o) < FloatScale)

\* The assertions in order; the first that fails raises.
check_args(args) ==
    IF ~UnitOpen(args.spatial_dropout)
    THEN Raise("AssertionError", "Spatial dropout must be between 0 and 1")
    ELSE IF ~(args.lrate > 0 /\ args.lrate < FloatScale)
    THEN Raise("AssertionError", "Lrate must be between 0 and 1")
    ELSE IF ~UnitOpen(args.L1_regularization)
    THEN Raise("AssertionError", "L1_regularization must be between 0 and 1")
    ELSE IF ~UnitOpen(args.L2_regularization)
    THEN Raise("AssertionError", "L2_regularization must be between 0 and 1")
    ELSE IF ~CpusOk(args.cpus_per_task)
    THEN Raise("AssertionError", "cpus_per_task must be positive or None")
    ELSE Return(None)

\* -------------------------------------------------------------- JobIterator
\* job_control.JobIterator: the Cartesian product of the parameter ranges,
\* enumerated with the last parameter varying fastest.
RECURSIVE get_njobs(_)
get_njobs(p) == IF p = <<>> THEN 1 ELSE Len(Head(p).values) * get_njobs(Tail(p))

\* The combination at index i, as a sequence of [name, value].
RECURSIVE get_index(_, _)
get_index(p, i) ==
    IF p = <<>> THEN <<>>
    ELSE LET rest == get_njobs(Tail(p))
         IN  << [name |-> Head(p).name, value |-> Head(p).values[(i \div rest) + 1]] >>
             \o get_index(Tail(p), i % rest)

RECURSIVE SetAll(_, _)
SetAll(obj, d) ==
    IF d = <<>> THEN obj ELSE SetAll(SetAttr(obj, Head(d).name, Head(d).value), Tail(d))

RECURSIVE ParamStr(_)
ParamStr(d) ==
    IF d = <<>> THEN ""
    ELSE Head(d).name \o "_" \o ToString(Head(d).value) \o "_" \o ParamStr(Tail(d))

\* Sets every parameter of combination i on obj; returns the changed object
\* and the string that describes the combination.
set_attributes_by_index(p, i, obj) ==
    [args |-> SetAll(obj, get_index(p, i)), str |-> ParamStr(get_index(p, i))]

\* -------------------------------------------------------------- augment_args
\* augment_args that returns before it pushes the attributes to args.
MutAugmentArgs(args) ==
    LET p == exp_type_to_hyperparameters(args) IN
    IF ~Ok(p) THEN p
    ELSE IF IsNone(args.exp_index) THEN Return([args |-> args, str |-> ""])
    ELSE IF ~(Val(args.exp_index) >= 0 /\ Val(args.exp_index) < get_njobs(p.val))
    THEN Raise("AssertionError", "exp_index out of range")
    ELSE Return([args |-> args, str |-> ""])

\* Returns the (modified) args and the parameter string.
augment_args(args) ==
    LET p == exp_type_to_hyperparameters(args) IN
    IF ~Ok(p) THEN p
    ELSE IF IsNone(args.exp_index) THEN Return([args |-> args, str |-> ""])
    ELSE IF ~(Val(args.exp_index) >= 0 /\ Val(args.exp_index) < get_njobs(p.val))
    THEN Raise("AssertionError", "exp_index out of range")
    ELSE Return(set_attributes_by_index(p.val, Val(args.exp_index), args))

\* ------------------------------------------------------------ generate_fname
\* f'{args.results_path}/{args.exp_type}': params_str is not used.
generate_fname(args, params_str) == args.results_path \o "/" \o args.exp_type

ResultsFile(fbase) == fbase \o "_results.pkl"

\* ------------------------------------------------- create_classifier_network
\* "model" stands for the network create_simple_rnn builds; the 'cnn' branch
\* returns None.
create_classifier_network(args) ==
    IF args.exp_type = "rnn" THEN Return(Some("model"))
    ELSE IF args.exp_type = "cnn" THEN Return(None)
    ELSE Raise("AssertionError", "unrecognized experiment type")

\* ------------------------------------------------------------------- files
\* The disk is a function from the names of the files that exist to their
\* contents.
Exists(disk, f) == f \in DOMAIN disk
WriteFile(disk, f, c) == [g \in DOMAIN disk \cup {f} |-> IF g = f THEN c ELSE disk[g]]
NoFiles == <<>>

\* --------------------------------------------------------------- execute_exp
\* The scaling without its test.
MutScaledBatch(batch, multi_gpus) == batch * multi_gpus

\* "Scale the batch size with the number of GPUs"
ScaledBatch(batch, multi_gpus) == IF multi_gpus > 1 THEN batch * multi_gpus ELSE batch

\* The test made on the base name instead of the name of the results file.
MutSkipExisting(args, disk, fname_out) ==
    ~args.force /\ Exists(disk, generate_fname(args, ""))

\* "Check if output file already exists"
SkipExisting(args, disk, fname_out) == ~args.force /\ Exists(disk, fname_out)

\* execute_exp up to the call of model.fit.  The result is one of
\*   a raised exception,
\*   [status |-> "nogo"] or [status |-> "exists"]: the early returns,
\*   [status |-> "fit"]: wandb.init was called and training starts.
\* In every case it carries the disk after the call and whether a tracking
\* run was started (run); past augment_args it carries the batch size handed
\* to create_tf_datasets (batch), and past generate_fname the name of the
\* results file (fname_out).
execute_exp_begin(args0, multi_gpus, disk) ==
    LET a == augment_args(args0) IN
    IF ~Ok(a) THEN a @@ [disk |-> disk, run |-> FALSE]
    ELSE
    LET args      == [a.val.args EXCEPT !.batch = ScaledBatch(a.val.args.batch, multi_gpus)]
        args_str  == a.val.str
        m         == create_classifier_network(args)
        sofar     == [disk |-> disk, run |-> FALSE, batch |-> args.batch]
    IN
    IF ~Ok(m) THEN m @@ sofar
    ELSE
    LET model     == m.val
        fbase     == generate_fname(args, args_str)
        fname_out == ResultsFile(fbase)
        render_fname == fbase \o "_model_plot.png"
        disk1     == IF args.render THEN WriteFile(disk, render_fname, "plot") ELSE disk
        named     == [disk |-> disk1, run |-> FALSE, batch |-> args.batch,
                      force |-> args.force, fname_out |-> fname_out]
    IN
    IF args.verbose >= 1 /\ IsNone(model)
    THEN Raise("AttributeError", "'NoneType' object has no attribute 'summary'") @@ sofar
    ELSE IF args.render /\ IsNone(model)
    THEN Raise("AttributeError", "plot_model of None") @@ sofar
    ELSE IF args.nogo
    THEN [exc |-> "", status |-> "nogo"] @@ named
    ELSE IF SkipExisting(args, disk1, fname_out)
    THEN [exc |-> "", status |-> "exists"] @@ named
    ELSE IF IsNone(model)
    THEN Raise("AttributeError", "'NoneType' object has no attribute 'fit'")
         @@ [run |-> TRUE] @@ named
    ELSE [exc |-> "", status |-> "fit", run |-> TRUE, args |-> args,
          args_str |-> args_str] @@ named

\* execute_exp after model.fit returns: "Save results", "Save model",
\* wandb.finish.  who identifies the run whose results are pickled.
execute_exp_finish(args, args_str, who, disk) ==
    LET fbase   == generate_fname(args, args_str)
        results == [fname_base |-> fbase, run |-> who]
        disk1   == WriteFile(disk, ResultsFile(fbase), results)
    IN  IF args.save_model THEN WriteFile(disk1, fbase \o "_model", "saved model")
        ELSE disk1

\* -------------------------------------------------------- check_completeness
\* The test without its "not".
MutIsMissing(disk, fname_out) == Exists(disk, fname_out)

\* "if not os.path.exists(fname_out)"
IsMissing(disk, fname_out) == ~Exists(disk, fname_out)

\* The loop over the jobs from index i on.  acc collects the indices visited,
\* the missing indices and the lines printed.
RECURSIVE CheckLoop(_, _, _, _, _)
CheckLoop(p, i, args, disk, acc) ==
    IF i >= get_njobs(p) THEN acc
    ELSE LET s         == set_attributes_by_index(p, i, args)
             fbase     == generate_fname(s.args, s.str)
             fname_out == ResultsFile(fbase)
             missing   == IsMissing(disk, fname_out)
         IN  CheckLoop(p, i + 1, s.args, disk,
                 [visited |-> Append(acc.visited, i),
                  indices |-> IF missing THEN Append(acc.indices, i) ELSE acc.indices,
                  printed |-> IF missing THEN Append(acc.printed, <<i, fname_out>>)
                              ELSE acc.printed])

\* The report: the total number of jobs, the indices visited, the missing
\* indices, the lines printed for them and the count printed at the end.
check_completeness(args, disk) ==
    LET p == exp_type_to_hyperparameters(args) IN
    IF ~Ok(p) THEN p
    ELSE LET acc == CheckLoop(p.val, 0, args, disk,
                              [visited |-> <<>>, indices |-> <<>>, printed |-> <<>>])
         IN  Return([total |-> get_njobs(p.val), visited |-> acc.visited,
                     indices |-> acc.indices, printed |-> acc.printed,
                     count |-> Len(acc.indices)])

\* ------------------------------------------------------------------- state
VARIABLES
    disk,   \* the files under the results directory
    jobs,   \* the batch jobs: each is a process that runs __main__ once
    call,   \* a single call of one function: its name and arguments
    ret,    \* what that call returned or raised
    swept   \* the jobs of one sweep: exp_index -> what augment_args gave

vars == <<disk, jobs, call, ret, swept>>

Jobs == 1..NumJobs

\* The Namespace create_parser().parse_args() gives, with the attributes this
\* file reads.
DefaultArgs ==
    [exp_type |-> "rnn", exp_index |-> None, rotation |-> 0, batch |-> 1,
     results_path |-> "./results", force |-> FALSE, nogo |-> FALSE, check |-> FALSE,
     verbose |-> 0, render |-> FALSE, save_model |-> FALSE,
     spatial_dropout |-> None, lrate |-> 1, L1_regularization |-> None,
     L2_regularization |-> None, cpus_per_task |-> None]

ExpTypes == {"rnn", "cnn", "lstm"}
NJobs == get_njobs(RotationParams)
\* exp_index: None, every index of the sweep, one below and one above.
ExpIndices == {None} \cup {Some(i) : i \in -1..NJobs}
OptUnit == {None} \cup {Some(x) : x \in {0, 1, FloatScale}}

\* The Namespace as it is, or with an attribute named expt_type as well.
WithExptType(args) == {args} \cup {SetAttr(args, "expt_type", t) : t \in {"rnn", "cnn"}}

NoJob == [pc |-> "idle", outcome |-> ""]
NoCall == [fn |-> ""]
NoRet == [fn |-> ""]
NoSweep == [args |-> DefaultArgs, result |-> <<>>]

\* ------------------------------------------------------ the batch jobs: Spec
\* The command lines of the batch jobs: with --check, or an experiment.  The
\* Namespace has the attributes of DefaultArgs, so none named expt_type.
JobArgs ==
    { [DefaultArgs EXCEPT !.exp_type = t, !.check = TRUE, !.cpus_per_task = k] :
        t \in {"rnn", "cnn"}, k \in {None, Some(1)} }
    \cup
    { [DefaultArgs EXCEPT !.exp_type = t, !.exp_index = i, !.force = f, !.nogo = n] :
        t \in {"rnn", "cnn"}, i \in {None, Some(0), Some(1), Some(NJobs)},
        f \in BOOLEAN, n \in BOOLEAN }

\* The GPUs of the partitions the batch file names: gpu:1, or a dual A100 node.
BatchGPUs == {1, 2}

Init ==
    /\ disk = NoFiles
    /\ jobs = [j \in Jobs |-> NoJob]
    /\ call = NoCall
    /\ ret = NoRet
    /\ swept = NoSweep

\* __main__: check_args raises and the process ends with the traceback.
ArgsRejected(j) ==
    /\ jobs[j].pc = "idle"
    /\ \E args \in JobArgs :
         /\ ~Ok(check_args(args))
         /\ jobs' = [jobs EXCEPT ![j] = [pc |-> "exit", outcome |-> "rejected",
                                         exc |-> check_args(args)]]
    /\ UNCHANGED <<disk, call, ret, swept>>

\* __main__ with --check: check_completeness, then the process ends.
CheckRun(j) ==
    /\ jobs[j].pc = "idle"
    /\ \E args \in JobArgs :
         /\ Ok(check_args(args))
         /\ args.check
         /\ LET r == check_completeness(args, disk) IN
            jobs' = [jobs EXCEPT ![j] =
                        IF Ok(r) THEN [pc |-> "exit", outcome |-> "checked",
                                       args |-> args, report |-> r.val]
                        ELSE [pc |-> "exit", outcome |-> "raised", exc |-> r]]
    /\ UNCHANGED <<disk, call, ret, swept>>

\* __main__ without --check: execute_exp(args, multi_gpus = n_visible_devices)
\* up to model.fit, or to the return or the exception that ends it before.
ExecuteBegin(j) ==
    /\ jobs[j].pc = "idle"
    /\ \E args \in JobArgs, n_visible_devices \in BatchGPUs :
         /\ Ok(check_args(args))
         /\ ~args.check
         /\ LET r == execute_exp_begin(args, n_visible_devices, disk) IN
            /\ disk' = r.disk
            /\ jobs' = [jobs EXCEPT ![j] =
                  IF ~Ok(r) THEN [pc |-> "exit", outcome |-> "raised", run |-> r.run,
                                  exc |-> [exc |-> r.exc, msg |-> r.msg]]
                  ELSE IF r.status = "fit"
                  THEN [pc |-> "fit", outcome |-> "", run |-> r.run, args |-> r.args,
                        args_str |-> r.args_str, exp_index |-> args.exp_index,
                        force |-> r.force, fname_out |-> r.fname_out]
                  ELSE [pc |-> "exit", outcome |-> r.status, run |-> r.run,
                        force |-> r.force, fname_out |-> r.fname_out]]
    /\ UNCHANGED <<call, ret, swept>>

\* model.fit returns: the results are written and the run ends.
ExecuteFinish(j) ==
    /\ jobs[j].pc = "fit"
    /\ disk' = execute_exp_finish(jobs[j].args, jobs[j].args_str, j, disk)
    /\ jobs' = [jobs EXCEPT ![j] = [@ EXCEPT !.pc = "exit", !.outcome = "completed"]]
    /\ UNCHANGED <<call, ret, swept>>

Next == \E j \in Jobs : ArgsRejected(j) \/ CheckRun(j) \/ ExecuteBegin(j) \/ ExecuteFinish(j)

Spec == Init /\ [][Next]_vars

\* ------------------------------------------------- single calls: SpecCall
\* The results files a results directory may hold from earlier runs.
OldResults(t) == [fname_base |-> "./results/" \o t, run |-> 0]
CallDisks ==
    { NoFiles,
      WriteFile(NoFiles, "./results/rnn_results.pkl", OldResults("rnn")),
      WriteFile(NoFiles, "./results/cnn_results.pkl", OldResults("cnn")),
      WriteFile(WriteFile(NoFiles, "./results/rnn_results.pkl", OldResults("rnn")),
                "./results/cnn_results.pkl", OldResults("cnn")) }

CheckArgsCalls ==
    { [fn |-> "check_args",
       args |-> [DefaultArgs EXCEPT !.spatial_dropout = sd, !.lrate = lr,
                                    !.L1_regularization = l1, !.L2_regularization = l2,
                                    !.cpus_per_task = k]] :
        sd \in OptUnit, lr \in {0, 1, FloatScale}, l1 \in OptUnit, l2 \in OptUnit,
        k \in {None} \cup {Some(c) : c \in -1..2} }

HyperCalls ==
    { [fn |-> "exp_type_to_hyperparameters", args |-> a] :
        a \in UNION { WithExptType([DefaultArgs EXCEPT !.exp_type = t]) : t \in ExpTypes } }

CheckCalls ==
    { [fn |-> "check_completeness", args |-> a] :
        a \in UNION { WithExptType([DefaultArgs EXCEPT !.exp_type = t, !.check = TRUE]) :
                        t \in ExpTypes } }

ExecuteCalls ==
    { [fn |-> "execute_exp", args |-> a, multi_gpus |-> n] :
        a \in UNION { WithExptType([DefaultArgs EXCEPT !.exp_type = t, !.exp_index = i,
                                       !.force = f, !.nogo = g, !.verbose = v,
                                       !.render = r, !.save_model = sm, !.batch = b]) :
                        t \in ExpTypes, i \in {None, Some(0), Some(NJobs - 1), Some(NJobs)},
                        f \in BOOLEAN, g \in BOOLEAN, v \in 0..1, r \in BOOLEAN,
                        sm \in BOOLEAN, b \in 1..MaxBatch },
        n \in 0..MaxGPUs }

InitCall ==
    /\ jobs = [j \in Jobs |-> NoJob]
    /\ ret = NoRet
    /\ swept = NoSweep
    /\ \/ call \in CheckArgsCalls \cup HyperCalls /\ disk = NoFiles
       \/ call \in CheckCalls \cup ExecuteCalls /\ disk \in CallDisks

CallCheckArgs ==
    /\ call.fn = "check_args" /\ ret = NoRet
    /\ ret' = [fn |-> call.fn] @@ check_args(call.args)
    /\ UNCHANGED <<disk, jobs, call, swept>>

CallHyper ==
    /\ call.fn = "exp_type_to_hyperparameters" /\ ret = NoRet
    /\ ret' = [fn |-> call.fn] @@ exp_type_to_hyperparameters(call.args)
    /\ UNCHANGED <<disk, jobs, call, swept>>

CallCheck ==
    /\ call.fn = "check_completeness" /\ ret = NoRet
    /\ ret' = [fn |-> call.fn] @@ check_completeness(call.args, disk)
    /\ UNCHANGED <<disk, jobs, call, swept>>

\* execute_exp(args, multi_gpus) up to model.fit ...
CallExecuteBegin ==
    /\ call.fn = "execute_exp" /\ ret = NoRet
    /\ LET r == execute_exp_begin(call.args, call.multi_gpus, disk) IN
       /\ ret' = [fn |-> call.fn] @@ Without(r, "disk")
       /\ disk' = r.disk
    /\ UNCHANGED <<jobs, call, swept>>

\* ... and from there to its return.
CallExecuteFinish ==
    /\ ret.fn = "execute_exp" /\ Ok(ret) /\ ret.status = "fit"
    /\ disk' = execute_exp_finish(ret.args, ret.args_str, 1, disk)
    /\ ret' = [ret EXCEPT !.status = "returned"]
    /\ UNCHANGED <<jobs, call, swept>>

NextCall == CallCheckArgs \/ CallHyper \/ CallCheck \/ CallExecuteBegin \/ CallExecuteFinish

SpecCall == InitCall /\ [][NextCall]_vars

\* -------------------------------------------------- one sweep: SpecSweep
\* The array jobs of one sweep: the same command line, each with its own
\* exp_index, in any order.
InitSweep ==
    /\ disk = NoFiles
    /\ jobs = [j \in Jobs |-> NoJob]
    /\ call = NoCall
    /\ ret = NoRet
    /\ \E t \in ExpTypes : \E a \in WithExptType([DefaultArgs EXCEPT !.exp_type = t]) :
         swept = [args |-> a, result |-> <<>>]

SweepJob(i) ==
    /\ i \notin DOMAIN swept.result
    /\ swept' = [swept EXCEPT !.result =
                    [k \in DOMAIN swept.result \cup {i} |->
                        IF k = i THEN augment_args([swept.args EXCEPT !.exp_index = Some(i)])
                        ELSE swept.result[k]]]
    /\ UNCHANGED <<disk, jobs, call, ret>>

NextSweep == \E i \in -1..NJobs : SweepJob(i)

SpecSweep == InitSweep /\ [][NextSweep]_vars

\* ================================================================== claims
Elems(seq) == {seq[k] : k \in 1..Len(seq)}
Ascending(seq) == \A k \in 1..(Len(seq) - 1) : seq[k] < seq[k + 1]
SweepIndices == 0..(NJobs - 1)

\* The job j has the locals of an execute_exp that reached model.fit.
Trained(j) == jobs[j].pc = "fit" \/ jobs[j].outcome = "completed"
\* The step in which job j runs check_completeness to its end.
Checks(j) == jobs[j].pc = "idle" /\ jobs'[j].outcome = "checked"
\* The step in which job j writes its results.
Saves(j) == jobs[j].pc = "fit" /\ jobs'[j].outcome = "completed"
\* The file f exists before and after the step, with another content.
Overwritten(f) == f \in DOMAIN disk /\ f \in DOMAIN disk' /\ disk'[f] # disk[f]

\* ---- C1
\* A run of the sweep that args belongs to, with exp_index = i, has completed.
CompletedRun(i, args) ==
    \E k \in Jobs : /\ jobs[k].outcome = "completed"
                    /\ jobs[k].exp_index = Some(i)
                    /\ jobs[k].args.exp_type = args.exp_type
                    /\ jobs[k].args.results_path = args.results_path

\* C1: whenever check_completeness runs, it reports the job index i as
\* missing exactly when no run with exp_index = i has completed before.
C1_MissingIffNotCompleted ==
    [][\A j \in Jobs : Checks(j) =>
          \A i \in SweepIndices :
              (i \in Elems(jobs'[j].report.indices)) <=> ~CompletedRun(i, jobs'[j].args)]_vars

\* ---- C2
\* C2: two runs of the same sweep with distinct job indices have distinct
\* base file names.
C2_NamesDistinct ==
    \A j, k \in Jobs :
        (/\ Trained(j) /\ Trained(k)
         /\ jobs[j].args.exp_type = jobs[k].args.exp_type
         /\ jobs[j].args.results_path = jobs[k].args.results_path
         /\ ~IsNone(jobs[j].exp_index) /\ ~IsNone(jobs[k].exp_index)
         /\ jobs[j].exp_index # jobs[k].exp_index)
        => generate_fname(jobs[j].args, jobs[j].args_str)
             # generate_fname(jobs[k].args, jobs[k].args_str)

\* ---- C3
\* The results file of job i of the sweep of args.
ExpectedFile(args, i) ==
    LET s == set_attributes_by_index(RotationParams, i, args)
    IN  ResultsFile(generate_fname(s.args, s.str))

\* C3: a check_completeness that runs to its end visits the indices
\* 0..njobs-1 once each in ascending order, lists in ascending order exactly
\* the indices whose results file does not exist, prints the length of that
\* list as the count, and leaves the disk as it was.
C3_ReportIsTheMissingFiles ==
    [][\A j \in Jobs : Checks(j) =>
          LET rep == jobs'[j].report IN
          /\ rep.visited = [k \in 1..NJobs |-> k - 1]
          /\ Ascending(rep.indices)
          /\ Elems(rep.indices)
               = {i \in SweepIndices : ~Exists(disk, ExpectedFile(jobs'[j].args, i))}
          /\ rep.count = Len(rep.indices)
          /\ disk' = disk]_vars

\* A check made after a run has written its results: nothing is missing.
C3_Witness ==
    \E j, k \in Jobs :
        /\ jobs[j].outcome = "checked" /\ jobs[j].report.indices = <<>>
        /\ jobs[j].report.visited = <<0, 1, 2, 3, 4>>
        /\ jobs[k].outcome = "completed"
        /\ Exists(disk, ExpectedFile(jobs[j].args, 0))

\* ---- C5
\* The step in which job j runs execute_exp without force, as far as it gets,
\* while the results file it names exists.
RunsOnExisting(j) ==
    /\ jobs[j].pc = "idle" /\ jobs'[j].pc # "idle"
    /\ HasAttr(jobs'[j], "fname_out")
    /\ ~jobs'[j].force
    /\ Exists(disk, jobs'[j].fname_out)

\* Such a call returns (at "nogo" or at the test of the file) without training
\* and without a tracking run, and the results file stays as it is.
SkipsExisting ==
    \A j \in Jobs : RunsOnExisting(j) =>
        /\ jobs'[j].pc = "exit" /\ jobs'[j].outcome \in {"nogo", "exists"}
        /\ ~jobs'[j].run
        /\ Exists(disk', jobs'[j].fname_out)
        /\ disk'[jobs'[j].fname_out] = disk[jobs'[j].fname_out]

\* C5 as claimed: SkipsExisting, and an existing results file is overwritten
\* only by a run that has force set.
C5_OverwrittenOnlyWithForce ==
    [][/\ SkipsExisting
       /\ \A f \in DOMAIN disk : Overwritten(f) =>
            \E j \in Jobs : Saves(j) /\ jobs[j].fname_out = f /\ jobs[j].force]_vars

\* C5 as amended: SkipsExisting; a run without force starts training only
\* when its results file does not exist at its test; and an existing results
\* file is overwritten only by a run that started training, when it saves.
C5_OverwrittenOnlyIfAbsentAtTest ==
    [][/\ SkipsExisting
       /\ \A j \in Jobs :
            (jobs[j].pc = "idle" /\ jobs'[j].pc = "fit" /\ ~jobs'[j].force)
            => ~Exists(disk, jobs'[j].fname_out)
       /\ \A f \in DOMAIN disk : Overwritten(f) =>
            \E j \in Jobs : Saves(j) /\ jobs[j].fname_out = f]_vars

\* A run without force has found the results of a completed run and returned.
C5_Witness ==
    \E j, k \in Jobs :
        /\ jobs[j].outcome = "exists" /\ ~jobs[j].force /\ ~jobs[j].run
        /\ jobs[k].outcome = "completed"
        /\ Exists(disk, jobs[j].fname_out)
        /\ disk[jobs[j].fname_out].run = k

\* ---- C4
\* The combination of the swept parameters that args holds.
Combo(args) == [k \in 1..Len(RotationParams) |-> args[RotationParams[k].name]]

RECURSIVE AllCombos(_)
AllCombos(p) ==
    IF p = <<>> THEN {<<>>}
    ELSE {<<v>> \o c : v \in Elems(Head(p).values), c \in AllCombos(Tail(p))}

\* The indices of the sweep for which augment_args has returned.
Augmented == {i \in DOMAIN swept.result \cap SweepIndices : Ok(swept.result[i])}

\* C4: for the experiment type 'rnn' augment_args returns for every index of
\* 0..njobs-1; wherever it returns it has set each swept parameter to a value
\* of its range, distinct indices have distinct combinations, and once all
\* the indices have been used every combination has been produced.
C4_IndexIsOnePointOfTheProduct ==
    /\ swept.args.exp_type = "rnn" => Augmented = DOMAIN swept.result \cap SweepIndices
    /\ \A i \in Augmented :
          \A k \in 1..Len(RotationParams) :
              swept.result[i].val.args[RotationParams[k].name]
                  \in Elems(RotationParams[k].values)
    /\ \A i, j \in Augmented :
          i # j => Combo(swept.result[i].val.args) # Combo(swept.result[j].val.args)
    /\ Augmented = SweepIndices =>
          {Combo(swept.result[i].val.args) : i \in Augmented} = AllCombos(RotationParams)

\* All five jobs of an 'rnn' sweep have had their arguments set.
C4_Witness ==
    /\ swept.args.exp_type = "rnn"
    /\ Augmented = 0..4
    /\ swept.result[3].val.args.rotation = 3

\* ---- C6
\* C6: the batch size execute_exp hands on is batch * n for n >= 2 visible
\* GPUs and batch for n = 0 or 1, and it is still that when the call returns.
C6_BatchIsPerGPU ==
    (ret.fn = "execute_exp" /\ HasAttr(ret, "batch")) =>
        LET b == call.args.batch
            n == call.multi_gpus
            effective == IF n >= 2 THEN b * n ELSE b
        IN  /\ ret.batch = effective
            /\ HasAttr(ret, "args") => ret.args.batch = effective

\* A run with two GPUs has returned, with its batch size doubled.
C6_Witness ==
    /\ ret.fn = "execute_exp" /\ Ok(ret) /\ ret.status = "returned"
    /\ call.multi_gpus = 2
    /\ ret.args.batch = 2 * call.args.batch

\* ---- C7
\* C7: with the other arguments in range, check_args accepts cpus_per_task
\* exactly when it is None or a positive integer, and otherwise raises
\* AssertionError.
C7_CpusPositiveOrNone ==
    (/\ ret.fn = "check_args"
     /\ UnitOpen(call.args.spatial_dropout)
     /\ call.args.lrate > 0 /\ call.args.lrate < FloatScale
     /\ UnitOpen(call.args.L1_regularization)
     /\ UnitOpen(call.args.L2_regularization))
    => IF IsNone(call.args.cpus_per_task) \/ Val(call.args.cpus_per_task) > 0
       THEN Ok(ret)
       ELSE ret.exc = "AssertionError"

\* ---- C8
\* C8: exp_type_to_hyperparameters returns {rotation: 0..4} for 'rnn' and for
\* 'cnn', and raises AssertionError 'Unrecognized exp_type' for every other
\* exp_type.
C8_RnnAndCnnRecognized ==
    ret.fn = "exp_type_to_hyperparameters" =>
        IF call.args.exp_type \in {"rnn", "cnn"}
        THEN Ok(ret) /\ ret.val = << [name |-> "rotation", values |-> <<0, 1, 2, 3, 4>>] >>
        ELSE ret.exc = "AssertionError" /\ ret.msg = "Unrecognized exp_type"

=============================================================================
